---- MODULE Spec2Model ----
(***************************************************************************)
(* Model of sleep_progress (drixter/sleeper), POSIX path.                  *)
(*                                                                         *)
(* Three variants of the program are modelled:                             *)
(*   "basic"  src/sleep_progress.c      (no bar, no --quiet)               *)
(*   "bar"    src/unnamed/part_000      (plain progress bar, --quiet)      *)
(*   "color"  src/unnamed/part_001      (same control flow, ANSI colours)  *)
(*                                                                         *)
(* The main thread is a program counter pc walking through main() and      *)
(* sleep_one_second(); the SIGINT handler and the timer are environment    *)
(* actions that interleave with every step of the main thread.  Output is  *)
(* one log (io) of events tagged with their channel, so that the order of  *)
(* writes across stdout and stderr is kept.                                *)
(***************************************************************************)
EXTENDS Integers, Sequences, FiniteSets

VARIABLES
    variant,     \* which source file is running
    total,       \* long total: the parsed duration
    multiline,   \* int multiline
    quiet,       \* int quiet (bar variants only; FALSE in the basic variant)
    pc,          \* position of the main thread
    elapsed,     \* long elapsed
    interrupted, \* static volatile sig_atomic_t interrupted
    ts,          \* struct timespec ts of sleep_one_second: remaining quanta
    io,          \* the writes to stdout / stderr so far, in order
    bar,         \* what the latest print_bar call drew
    exitCode,    \* the process's exit status, -1 while it runs
    sleepCalls,  \* history: calls of sleep_one_second so far
    sleepOk,     \* history: calls of sleep_one_second that returned 0
    latchAt,     \* history: where the main thread was when the latch was first set
    sigints,     \* history: SIGINTs delivered so far
    wakes,       \* history: wake-ups of nanosleep by other signals so far
    argv,        \* argv[1..argc-1], each argument a sequence of characters
    handler,     \* whether handle_sigint is installed for SIGINT
    naps,        \* history: nanosleep calls made by the current sleep_one_second call
    latchSnap    \* history: the counters at the moment the latch was first set

vars == <<variant, total, multiline, quiet, pc, elapsed, interrupted, ts, io,
          bar, exitCode, sleepCalls, sleepOk, latchAt, sigints, wakes,
          argv, handler, naps, latchSnap>>

(***************************************************************************)
(* Bounds of the model.                                                    *)
(***************************************************************************)
MaxDuration == 3
SleepQuanta == 2
MaxSigints == 2
MaxWakes == 1
MaxBarTotal == 100
MaxArgs == 3

(***************************************************************************)
(* Program constants.                                                      *)
(***************************************************************************)
BAR_WIDTH == 20
EXIT_OK == 0
EXIT_INTERRUPTED == 130
EXIT_USAGE == 1

Variants == {"basic", "bar", "color"}
BarVariants == {"bar", "color"}
IsBar == variant \in BarVariants

(***************************************************************************)
(* IEEE-754 binary32 arithmetic, as print_bar uses it.  A float is         *)
(* [m, k] standing for m * 2^(-k) with 2^23 <= m < 2^24 (or m = 0).        *)
(***************************************************************************)
RECURSIVE Pow2(_)
Pow2(n) == IF n = 0 THEN 1 ELSE 2 * Pow2(n - 1)

\* n / d rounded to the nearest integer, ties to even (the FPU's default mode)
RoundHalfEven(n, d) ==
    LET q == n \div d
        r == n % d
    IN  IF 2 * r < d THEN q
        ELSE IF 2 * r > d THEN q + 1
        ELSE IF q % 2 = 0 THEN q ELSE q + 1

Normalize(m, k) == IF m = Pow2(24) THEN [m |-> Pow2(23), k |-> k - 1]
                   ELSE [m |-> m, k |-> k]

RECURSIVE DivScale(_, _, _)
DivScale(a, b, k) == IF a * Pow2(k) >= b * Pow2(23) THEN k ELSE DivScale(a, b, k + 1)

\* (float)a / b for 0 <= a <= b, b > 0: the quotient rounded to binary32
FloatDiv(a, b) ==
    IF a = 0 THEN [m |-> 0, k |-> 0]
    ELSE LET k == DivScale(a, b, 0)
         IN  Normalize(RoundHalfEven(a * Pow2(k), b), k)

RECURSIVE MulScale(_, _)
MulScale(p, s) == IF p \div Pow2(s) < Pow2(24) THEN s ELSE MulScale(p, s + 1)

\* f * n for a float f and a small integer n: the product rounded to binary32
FloatMulInt(f, n) ==
    IF f.m = 0 THEN f
    ELSE LET p == f.m * n
             s == MulScale(p, 0)
         IN  Normalize(RoundHalfEven(p, Pow2(s)), f.k - s)

\* mutant: (int) rounds to the nearest integer instead of truncating
FloatToIntRounded(f) ==
    IF f.k >= 0 THEN RoundHalfEven(f.m, Pow2(f.k)) ELSE f.m * Pow2(0 - f.k)

\* (int)f for a float f >= 0: truncation towards zero
FloatToInt(f) == IF f.k >= 0 THEN f.m \div Pow2(f.k) ELSE f.m * Pow2(0 - f.k)

FloatOne == [m |-> Pow2(23), k |-> 23]

(***************************************************************************)
(* print_bar(elapsed, total): the cells filled and the percentage printed. *)
(***************************************************************************)
\* mutant: an empty duration drawn as nothing done instead of all done
PercentageNoZeroGuard(e, d) == IF d = 0 THEN [m |-> 0, k |-> 0] ELSE FloatDiv(e, d)

Percentage(e, d) == IF d = 0 THEN FloatOne ELSE FloatDiv(e, d)

PrintBar(e, d) ==
    LET percentage == Percentage(e, d)
    IN  [e      |-> e,
         d      |-> d,
         filled |-> FloatToInt(FloatMulInt(percentage, BAR_WIDTH)),
         pct    |-> FloatToInt(FloatMulInt(percentage, 100))]

NoBar == [e |-> 0, d |-> 0, filled |-> 0, pct |-> 0]

\* print_bar for the durations of the main loop's runs, worked out once
BarFrames == [d \in 0..(MaxDuration + 1) |-> [e \in 0..(d + 1) |-> PrintBar(e, d)]]

DrawBar(e, d) ==
    IF d \in DOMAIN BarFrames /\ e \in DOMAIN BarFrames[d]
    THEN BarFrames[d][e]
    ELSE PrintBar(e, d)

(***************************************************************************)
(* Output events.  a, b are the numbers printed; filled, pct the bar.      *)
(***************************************************************************)
Ev(ch, ev, a, b, f, p) ==
    [ch |-> ch, ev |-> ev, a |-> a, b |-> b, filled |-> f, pct |-> p]

Out(ev, a, b) == Ev("out", ev, a, b, -1, -1)
Err(ev, a, b) == Ev("err", ev, a, b, -1, -1)

\* mutant: the bar variants' newline test without !quiet
NeedsNewlineIgnoringQuiet == ~multiline

\* if (!multiline) putchar('\n')   /   if (!quiet && !multiline) putchar('\n')
NeedsNewline == IF IsBar THEN ~quiet /\ ~multiline ELSE ~multiline

Newline == IF NeedsNewline THEN <<Out("nl", 0, 0)>> ELSE << >>

(***************************************************************************)
(* The interrupt latch.                                                    *)
(***************************************************************************)
WasInterrupted == interrupted # 0

NoLatch == [set |-> FALSE, pc |-> "none", elapsed |-> 0]

\* what had happened when the latch was first set: the sleeps that had returned 0,
\* the ticks drawn, and whether sleep_one_second had already started waiting
NoSnap == [sleepOk |-> 0, ticks |-> 0, waiting |-> FALSE]

Snapshot ==
    [sleepOk |-> sleepOk,
     ticks   |-> Len(SelectSeq(io, LAMBDA x : x.ev = "tick")),
     waiting |-> pc \in {"sleeping", "eintr"} \/ (pc = "call" /\ naps > 0)]

(***************************************************************************)
(* The command line.  An argument is a sequence of characters.             *)
(***************************************************************************)
ArgMultiline == <<"-", "-", "m", "u", "l", "t", "i", "l", "i", "n", "e">>
ArgQuiet     == <<"-", "-", "q", "u", "i", "e", "t">>
ArgQ         == <<"-", "q">>

DigitChars == <<"0", "1", "2", "3", "4", "5", "6", "7", "8", "9">>
IsDigit(c) == \E i \in 1..10 : DigitChars[i] = c
DigitVal(c) == (CHOOSE i \in 1..10 : DigitChars[i] = c) - 1

RECURSIVE SkipSpaces(_, _)
SkipSpaces(str, i) ==
    IF i <= Len(str) /\ str[i] = " " THEN SkipSpaces(str, i + 1) ELSE i

RECURSIVE ScanDigits(_, _, _)
ScanDigits(str, i, acc) ==
    IF i <= Len(str) /\ IsDigit(str[i])
    THEN ScanDigits(str, i + 1, 10 * acc + DigitVal(str[i]))
    ELSE [value |-> acc, end |-> i]

\* strtol(str, &end, 10): white space, an optional sign, then digits.  end is the
\* index of the first character not converted, 1 (the start) when there is no
\* digit to convert.  The arguments of the model are all in the range of long, so
\* strtol never sets errno to ERANGE.
Strtol(str) ==
    LET i == SkipSpaces(str, 1)
        neg == i <= Len(str) /\ str[i] = "-"
        j == IF i <= Len(str) /\ str[i] \in {"-", "+"} THEN i + 1 ELSE i
        d == ScanDigits(str, j, 0)
    IN  IF d.end = j
        THEN [value |-> 0, end |-> 1, errno |-> 0]
        ELSE [value |-> IF neg THEN 0 - d.value ELSE d.value, end |-> d.end, errno |-> 0]

\* mutant: the test for characters left after the number is missing
BadSecondsNoEndCheck(str) ==
    LET r == Strtol(str)
    IN  r.errno # 0 \/ r.end = 1 \/ r.value < 0

\* errno != 0 || end == argv[i] || *end != '\0' || total < 0
BadSeconds(str) ==
    LET r == Strtol(str)
    IN  r.errno # 0 \/ r.end = 1 \/ r.end <= Len(str) \/ r.value < 0

ScanResult(status, t, m, q) ==
    [status |-> status, total |-> t, multiline |-> m, quiet |-> q]

\* the basic variant: argc is checked, argv[2] is looked at for --multiline,
\* argv[1] is the duration
ScanArgsBasic(args) ==
    IF Len(args) + 1 < 2 \/ Len(args) + 1 > 3
    THEN ScanResult("usage", -1, FALSE, FALSE)
    ELSE LET m == Len(args) + 1 = 3 /\ args[2] = ArgMultiline
         IN  IF BadSeconds(args[1])
             THEN ScanResult("bad_seconds", Strtol(args[1]).value, m, FALSE)
             ELSE ScanResult("ok", Strtol(args[1]).value, m, FALSE)

\* the bar variants: one pass over argv, the first argument that is no flag is
\* the duration, later ones are passed over
RECURSIVE ScanFrom(_, _, _)
ScanFrom(args, i, st) ==
    IF i > Len(args)
    THEN IF st.total = -1
         THEN ScanResult("missing", -1, st.multiline, st.quiet)
         ELSE st
    ELSE IF args[i] = ArgMultiline
         THEN ScanFrom(args, i + 1, [st EXCEPT !.multiline = TRUE])
    ELSE IF args[i] = ArgQuiet \/ args[i] = ArgQ
         THEN ScanFrom(args, i + 1, [st EXCEPT !.quiet = TRUE])
    ELSE IF st.total = -1
         THEN IF BadSeconds(args[i])
              THEN ScanResult("bad_seconds", Strtol(args[i]).value, st.multiline, st.quiet)
              ELSE ScanFrom(args, i + 1, [st EXCEPT !.total = Strtol(args[i]).value])
    ELSE ScanFrom(args, i + 1, st)

\* mutant: an argument that is neither a flag nor a number is rejected wherever it is
ScanArgsBarStrict(args) ==
    IF Len(args) + 1 < 2
    THEN ScanResult("usage", -1, FALSE, FALSE)
    ELSE IF \E i \in 1..Len(args) :
               args[i] \notin {ArgMultiline, ArgQuiet, ArgQ} /\ BadSeconds(args[i])
         THEN ScanResult("bad_seconds", -1, FALSE, FALSE)
         ELSE ScanFrom(args, 1, ScanResult("ok", -1, FALSE, FALSE))

ScanArgsBar(args) ==
    IF Len(args) + 1 < 2
    THEN ScanResult("usage", -1, FALSE, FALSE)
    ELSE ScanFrom(args, 1, ScanResult("ok", -1, FALSE, FALSE))

ScanArgs(v, args) == IF v \in BarVariants THEN ScanArgsBar(args) ELSE ScanArgsBasic(args)

\* a command line that gives the duration t and the modes m, q
CanonArgv(t, m, q) ==
    <<<<DigitChars[t + 1]>>>> \o (IF m THEN <<ArgMultiline>> ELSE << >>)
                          \o (IF q THEN <<ArgQuiet>> ELSE << >>)

Init ==
    /\ variant \in Variants
    /\ total \in 0..MaxDuration
    /\ multiline \in BOOLEAN
    /\ quiet \in (IF IsBar THEN BOOLEAN ELSE {FALSE})
    /\ pc = "install"
    /\ elapsed = 0
    /\ interrupted = 0
    /\ ts = 0
    /\ io = << >>
    /\ bar = NoBar
    /\ exitCode = -1  \* still running
    /\ sleepCalls = 0
    /\ sleepOk = 0
    /\ latchAt = NoLatch
    /\ sigints = 0
    /\ wakes = 0
    /\ argv = CanonArgv(total, multiline, quiet)
    /\ handler = FALSE
    /\ naps = 0
    /\ latchSnap = NoSnap

\* install_handler(): sigaction(SIGINT, handle_sigint)
InstallHandler ==
    /\ pc = "install"
    /\ pc' = "header"
    /\ UNCHANGED <<variant, total, multiline, quiet, elapsed, interrupted, ts, io,
                   bar, exitCode, sleepCalls, sleepOk, latchAt, sigints, wakes>>
    /\ handler' = TRUE
    /\ UNCHANGED <<argv, naps, latchSnap>>

\* the header line(s) printed before the loop
Header ==
    IF IsBar THEN <<Out("start_eta", 0, total), Out("sleeping_for", total, 0)>>
    ELSE <<Out("sleeping_for", total, 0)>>

PrintHeader ==
    /\ pc = "header"
    /\ io' = io \o Header
    /\ pc' = "loop"
    /\ UNCHANGED <<variant, total, multiline, quiet, elapsed, interrupted, ts,
                   bar, exitCode, sleepCalls, sleepOk, latchAt, sigints, wakes>>
    /\ UNCHANGED <<argv, handler, naps, latchSnap>>

\* mutant: the basic variant's loop runs while elapsed <= total
LoopCondOffByOne == elapsed <= total

\* mutant: the bar variants' loop runs while elapsed < total
LoopCondExclusive == elapsed < total

\* while (elapsed < total)   /   while (elapsed <= total)
LoopCond == IF IsBar THEN elapsed <= total ELSE elapsed < total

LoopTest ==
    /\ pc = "loop"
    /\ pc' = IF LoopCond THEN (IF IsBar THEN "render" ELSE "chk1") ELSE "done"
    /\ UNCHANGED <<variant, total, multiline, quiet, elapsed, interrupted, ts, io,
                   bar, exitCode, sleepCalls, sleepOk, latchAt, sigints, wakes>>
    /\ UNCHANGED <<argv, handler, naps, latchSnap>>

\* mutant: the tick drawn without looking at quiet
RendersTickAlways == TRUE

\* whether the loop draws a tick: always in the basic variant, if (!quiet) in the bar ones
RendersTick == IF IsBar THEN ~quiet ELSE TRUE

\* mutant: remaining worked out before elapsed++ in the basic variant
TickRemainingStale ==
    IF IsBar
    THEN LET b == DrawBar(elapsed, total)
         IN  Ev("out", "tick", elapsed, total - elapsed, b.filled, b.pct)
    ELSE Out("tick", elapsed, total - elapsed + 1)

\* the tick: elapsed, remaining and (bar variants) the bar
Tick ==
    IF IsBar
    THEN LET b == DrawBar(elapsed, total)
         IN  Ev("out", "tick", elapsed, total - elapsed, b.filled, b.pct)
    ELSE Out("tick", elapsed, total - elapsed)

Render ==
    /\ pc = "render"
    /\ io' = IF RendersTick THEN Append(io, Tick) ELSE io
    /\ bar' = IF IsBar /\ RendersTick THEN DrawBar(elapsed, total) ELSE bar
    /\ pc' = IF IsBar THEN "brk" ELSE "loop"
    /\ UNCHANGED <<variant, total, multiline, quiet, elapsed, interrupted, ts,
                   exitCode, sleepCalls, sleepOk, latchAt, sigints, wakes>>
    /\ UNCHANGED <<argv, handler, naps, latchSnap>>

\* mutant: the break at elapsed == total left out
BreakTestMissing ==
    /\ pc = "brk"
    /\ pc' = "chk1"
    /\ UNCHANGED <<variant, total, multiline, quiet, elapsed, interrupted, ts, io,
                   bar, exitCode, sleepCalls, sleepOk, latchAt, sigints, wakes>>
    /\ UNCHANGED <<argv, handler, naps, latchSnap>>

\* if (elapsed == total) break;
BreakTest ==
    /\ pc = "brk"
    /\ pc' = IF elapsed = total THEN "done" ELSE "chk1"
    /\ UNCHANGED <<variant, total, multiline, quiet, elapsed, interrupted, ts, io,
                   bar, exitCode, sleepCalls, sleepOk, latchAt, sigints, wakes>>
    /\ UNCHANGED <<argv, handler, naps, latchSnap>>

\* mutant: no was_interrupted() test before the sleep
PreCheckSkipped ==
    /\ pc = "chk1"
    /\ pc' = "call"
    /\ ts' = SleepQuanta
    /\ sleepCalls' = sleepCalls + 1
    /\ UNCHANGED <<variant, total, multiline, quiet, elapsed, interrupted, io,
                   bar, exitCode, sleepOk, latchAt, sigints, wakes>>
    /\ naps' = 0
    /\ UNCHANGED <<argv, handler, latchSnap>>

\* if (was_interrupted()) ... else call sleep_one_second(): ts = {1, 0}
PreCheck ==
    /\ pc = "chk1"
    /\ IF WasInterrupted
       THEN /\ pc' = "intr"
            /\ UNCHANGED <<ts, sleepCalls>>
       ELSE /\ pc' = "call"
            /\ ts' = SleepQuanta
            /\ sleepCalls' = sleepCalls + 1
    /\ UNCHANGED <<variant, total, multiline, quiet, elapsed, interrupted, io,
                   bar, exitCode, sleepOk, latchAt, sigints, wakes>>
    /\ naps' = 0
    /\ UNCHANGED <<argv, handler, latchSnap>>

\* nanosleep(&ts, &ts) enters the kernel and starts waiting
NanosleepEnter ==
    /\ pc = "call"
    /\ pc' = "sleeping"
    /\ UNCHANGED <<variant, total, multiline, quiet, elapsed, interrupted, ts, io,
                   bar, exitCode, sleepCalls, sleepOk, latchAt, sigints, wakes>>
    /\ naps' = naps + 1
    /\ UNCHANGED <<argv, handler, latchSnap>>

\* time passes in nanosleep; when none is left nanosleep returns 0
TimerTick ==
    /\ pc = "sleeping"
    /\ ts' = ts - 1
    /\ pc' = IF ts - 1 = 0 THEN "ret0" ELSE "sleeping"
    /\ UNCHANGED <<variant, total, multiline, quiet, elapsed, interrupted, io,
                   bar, exitCode, sleepCalls, sleepOk, latchAt, sigints, wakes>>
    /\ UNCHANGED <<argv, handler, naps, latchSnap>>

\* nanosleep returned -1 with EINTR: if (was_interrupted()) return -1; else wait again
EintrCheck ==
    /\ pc = "eintr"
    /\ pc' = IF WasInterrupted THEN "intr" ELSE "call"
    /\ UNCHANGED <<variant, total, multiline, quiet, elapsed, interrupted, ts, io,
                   bar, exitCode, sleepCalls, sleepOk, latchAt, sigints, wakes>>
    /\ UNCHANGED <<argv, handler, naps, latchSnap>>

\* sleep_one_second returns 0; the bar variants then test was_interrupted() again
SleepReturn ==
    /\ pc = "ret0"
    /\ sleepOk' = sleepOk + 1
    /\ pc' = IF IsBar THEN "chk2" ELSE "incr"
    /\ UNCHANGED <<variant, total, multiline, quiet, elapsed, interrupted, ts, io,
                   bar, exitCode, sleepCalls, latchAt, sigints, wakes>>
    /\ UNCHANGED <<argv, handler, naps, latchSnap>>

\* mutant: no was_interrupted() test after the sleep
PostCheckSkipped ==
    /\ pc = "chk2"
    /\ pc' = "incr"
    /\ UNCHANGED <<variant, total, multiline, quiet, elapsed, interrupted, ts, io,
                   bar, exitCode, sleepCalls, sleepOk, latchAt, sigints, wakes>>
    /\ UNCHANGED <<argv, handler, naps, latchSnap>>

\* ... || was_interrupted()  after the sleep (bar variants)
PostCheck ==
    /\ pc = "chk2"
    /\ pc' = IF WasInterrupted THEN "intr" ELSE "incr"
    /\ UNCHANGED <<variant, total, multiline, quiet, elapsed, interrupted, ts, io,
                   bar, exitCode, sleepCalls, sleepOk, latchAt, sigints, wakes>>
    /\ UNCHANGED <<argv, handler, naps, latchSnap>>

\* elapsed++
Increment ==
    /\ pc = "incr"
    /\ elapsed' = elapsed + 1
    /\ pc' = IF IsBar THEN "loop" ELSE "render"
    /\ UNCHANGED <<variant, total, multiline, quiet, interrupted, ts, io,
                   bar, exitCode, sleepCalls, sleepOk, latchAt, sigints, wakes>>
    /\ UNCHANGED <<argv, handler, naps, latchSnap>>

\* mutant: the message written but the return 130 missing, the loop goes on
InterruptedNoReturn ==
    /\ pc = "intr"
    /\ io' = io \o Newline \o <<Err("intr", elapsed, total)>>
    /\ pc' = "loop"
    /\ UNCHANGED <<variant, total, multiline, quiet, elapsed, interrupted, ts,
                   bar, exitCode, sleepCalls, sleepOk, latchAt, sigints, wakes>>
    /\ UNCHANGED <<argv, handler, naps, latchSnap>>

\* mutant: the message counts the unit in progress
InterruptedOffByOne ==
    /\ pc = "intr"
    /\ io' = io \o Newline \o <<Err("intr", elapsed + 1, total)>>
    /\ exitCode' = EXIT_INTERRUPTED
    /\ pc' = "exited"
    /\ UNCHANGED <<variant, total, multiline, quiet, elapsed, interrupted, ts,
                   bar, sleepCalls, sleepOk, latchAt, sigints, wakes>>
    /\ UNCHANGED <<argv, handler, naps, latchSnap>>

\* the interrupted exit: newline if needed, the message on stderr, return 130
Interrupted ==
    /\ pc = "intr"
    /\ io' = io \o Newline \o <<Err("intr", elapsed, total)>>
    /\ exitCode' = EXIT_INTERRUPTED
    /\ pc' = "exited"
    /\ UNCHANGED <<variant, total, multiline, quiet, elapsed, interrupted, ts,
                   bar, sleepCalls, sleepOk, latchAt, sigints, wakes>>
    /\ UNCHANGED <<argv, handler, naps, latchSnap>>

\* the normal exit: newline if needed, the summary on stdout, return 0
Done ==
    /\ pc = "done"
    /\ io' = io \o Newline \o <<Out("done", total, 0)>>
    /\ exitCode' = EXIT_OK
    /\ pc' = "exited"
    /\ UNCHANGED <<variant, total, multiline, quiet, elapsed, interrupted, ts,
                   bar, sleepCalls, sleepOk, latchAt, sigints, wakes>>
    /\ UNCHANGED <<argv, handler, naps, latchSnap>>

\* mutant: the handler flips the flag
HandleSigintToggle == interrupted' = 1 - interrupted

\* handle_sigint: interrupted = 1
HandleSigint == interrupted' = 1

\* SIGINT is delivered while the handler is installed; a nanosleep in progress
\* returns -1 with EINTR (nanosleep is never restarted, SA_RESTART or not)
Sigint ==
    /\ handler
    /\ pc # "exited"
    /\ sigints < MaxSigints
    /\ sigints' = sigints + 1
    /\ HandleSigint
    /\ latchAt' = IF latchAt.set THEN latchAt
                  ELSE [set |-> TRUE, pc |-> pc, elapsed |-> elapsed]
    /\ pc' = IF pc = "sleeping" THEN "eintr" ELSE pc
    /\ UNCHANGED <<variant, total, multiline, quiet, elapsed, ts, io,
                   bar, exitCode, sleepCalls, sleepOk, wakes>>
    /\ latchSnap' = IF latchAt.set THEN latchSnap ELSE Snapshot
    /\ UNCHANGED <<argv, handler, naps>>

\* another signal wakes nanosleep: -1 with EINTR, the latch untouched, the
\* remaining time left in ts
OtherSignal ==
    /\ pc = "sleeping"
    /\ wakes < MaxWakes
    /\ wakes' = wakes + 1
    /\ pc' = "eintr"
    /\ UNCHANGED <<variant, total, multiline, quiet, elapsed, interrupted, ts, io,
                   bar, exitCode, sleepCalls, sleepOk, latchAt, sigints>>
    /\ UNCHANGED <<argv, handler, naps, latchSnap>>

Next ==
    \/ InstallHandler
    \/ PrintHeader
    \/ LoopTest
    \/ Render
    \/ BreakTest
    \/ PreCheck
    \/ NanosleepEnter
    \/ TimerTick
    \/ EintrCheck
    \/ SleepReturn
    \/ PostCheck
    \/ Increment
    \/ Interrupted
    \/ Done
    \/ Sigint
    \/ OtherSignal

Spec == Init /\ [][Next]_vars

(***************************************************************************)
(* print_bar on its own: every total up to MaxBarTotal, elapsed walking    *)
(* from 0 to total, one call of print_bar per value.                       *)
(***************************************************************************)
InitBar ==
    /\ variant \in BarVariants
    /\ total \in 0..MaxBarTotal
    /\ multiline = FALSE
    /\ quiet = FALSE
    /\ pc = "bar"
    /\ elapsed = 0
    /\ interrupted = 0
    /\ ts = 0
    /\ io = << >>
    /\ bar = PrintBar(0, total)
    /\ exitCode = -1  \* still running
    /\ sleepCalls = 0
    /\ sleepOk = 0
    /\ latchAt = NoLatch
    /\ sigints = 0
    /\ wakes = 0
    /\ argv = CanonArgv(0, multiline, quiet)
    /\ handler = FALSE
    /\ naps = 0
    /\ latchSnap = NoSnap

BarStep ==
    /\ pc = "bar"
    /\ elapsed < total
    /\ elapsed' = elapsed + 1
    /\ bar' = PrintBar(elapsed + 1, total)
    /\ UNCHANGED <<variant, total, multiline, quiet, pc, interrupted, ts, io,
                   exitCode, sleepCalls, sleepOk, latchAt, sigints, wakes>>
    /\ UNCHANGED <<argv, handler, naps, latchSnap>>

NextBar == BarStep

SpecBar == InitBar /\ [][NextBar]_vars

(***************************************************************************)
(* The whole program from its command line: main() scans argv, then runs   *)
(* as above.                                                               *)
(***************************************************************************)
ArgTokens ==
    { <<"0">>, <<"1">>, <<"-", "5">>, <<"3", ".", "5">>, <<"a", "b", "c">>,
      ArgMultiline, ArgQuiet, ArgQ, <<"-", "-", "f", "o", "o">> }

ArgLists == UNION { [1..n -> ArgTokens] : n \in 0..MaxArgs }

InitArgs ==
    /\ variant \in Variants
    /\ argv \in ArgLists
    /\ total = -1
    /\ multiline = FALSE
    /\ quiet = FALSE
    /\ pc = "parse"
    /\ elapsed = 0
    /\ interrupted = 0
    /\ ts = 0
    /\ io = << >>
    /\ bar = NoBar
    /\ exitCode = -1  \* still running
    /\ sleepCalls = 0
    /\ sleepOk = 0
    /\ latchAt = NoLatch
    /\ sigints = 0
    /\ wakes = 0
    /\ handler = FALSE
    /\ naps = 0
    /\ latchSnap = NoSnap

\* main() up to install_handler(): the scan of argv; a bad command line is
\* reported on stderr and main returns 1
ParseArgs ==
    /\ pc = "parse"
    /\ LET r == ScanArgs(variant, argv)
       IN  /\ total' = r.total
           /\ multiline' = r.multiline
           /\ quiet' = r.quiet
           /\ IF r.status = "ok"
              THEN /\ pc' = "install"
                   /\ UNCHANGED <<io, exitCode>>
              ELSE /\ pc' = "exited"
                   /\ io' = Append(io, Err(r.status, 0, 0))
                   /\ exitCode' = EXIT_USAGE
    /\ UNCHANGED <<variant, elapsed, interrupted, ts, bar, sleepCalls, sleepOk,
                   latchAt, sigints, wakes, argv, handler, naps, latchSnap>>

\* the steps of the program itself and of its timer, as against the signals
ProgramStep ==
    \/ ParseArgs
    \/ InstallHandler
    \/ PrintHeader
    \/ LoopTest
    \/ Render
    \/ BreakTest
    \/ PreCheck
    \/ NanosleepEnter
    \/ TimerTick
    \/ EintrCheck
    \/ SleepReturn
    \/ PostCheck
    \/ Increment
    \/ Interrupted
    \/ Done

NextArgs == ParseArgs \/ Next

SpecArgs == InitArgs /\ [][NextArgs]_vars

\* the program keeps running and every nanosleep's timer expires in the end;
\* no signal has to arrive
FairSpecArgs == SpecArgs /\ WF_vars(ProgramStep)

(***************************************************************************)
(* Helpers for the properties.                                             *)
(***************************************************************************)
Exited == pc = "exited"
LastIo == io[Len(io)]
TickEvents == SelectSeq(io, LAMBDA x : x.ev = "tick")
NewlineEvents == SelectSeq(io, LAMBDA x : x.ev = "nl")

\* The positions of iteration k (elapsed = k-1, k <= total) from which the sleep of
\* unit k has not completed yet: before the sleep call starts, or in nanosleep.
BeforeUnitCompletes == {"header", "loop", "render", "brk", "chk1", "call", "sleeping", "eintr"}

LatchBeforeUnitCompletes ==
    /\ latchAt.set
    /\ latchAt.pc \in BeforeUnitCompletes
    /\ latchAt.elapsed < total

(***************************************************************************)
(* C1: in the bar variants, a latch set while Elapsed = k-1 and before the *)
(* sleep of unit k has completed (before nanosleep starts, or while it     *)
(* waits) ends the run with status 130 and the message                     *)
(* "Interrupted at k-1/D", for every D and 1 <= k <= D.                    *)
(***************************************************************************)
C1_BarInterruptReportsUnitsDone ==
    (IsBar /\ Exited /\ LatchBeforeUnitCompletes)
        => /\ exitCode = EXIT_INTERRUPTED
           /\ LastIo.ch = "err"
           /\ LastIo.ev = "intr"
           /\ LastIo.a = latchAt.elapsed
           /\ LastIo.b = total

\* the latch was set before nanosleep started, the full second was slept, and
\* the check after the sleep caught it, in the last unit of a run of 2 or more
C1_Witness ==
    /\ IsBar /\ Exited /\ exitCode = EXIT_INTERRUPTED
    /\ latchAt.set /\ latchAt.pc = "call"
    /\ total >= 2 /\ latchAt.elapsed = total - 1
    /\ sleepOk = total
    /\ LastIo.a = total - 1

(***************************************************************************)
(* C2: in the basic variant, a latch set while Elapsed = k-1 and before    *)
(* the sleep of unit k has completed (between the was_interrupted() check  *)
(* and the start of nanosleep, or during nanosleep) ends the run with      *)
(* status 130 and reports Elapsed = k-1, also for k = D.                   *)
(***************************************************************************)
C2_BasicInterruptReportsUnitsDone ==
    (variant = "basic" /\ Exited /\ LatchBeforeUnitCompletes)
        => /\ exitCode = EXIT_INTERRUPTED
           /\ LastIo.ev = "intr"
           /\ LastIo.a = latchAt.elapsed

LatchAfterLastCheck ==
    \/ latchAt.elapsed = total
    \/ /\ latchAt.elapsed = total - 1
       /\ latchAt.pc \in (IF IsBar THEN {"incr"} ELSE {"call", "ret0", "incr"})

C4_UninterruptedRun ==
    (Exited /\ ~latchAt.set)
        => /\ exitCode = EXIT_OK
           /\ sleepCalls = total
           /\ sleepOk = total
           /\ elapsed = total
           /\ LastIo = Out("done", total, 0)
           /\ Len(SelectSeq(io, LAMBDA x : x.ev = "done")) = 1

C4_Witness ==
    /\ Exited /\ ~latchAt.set /\ total >= 2 /\ wakes >= 1
    /\ sleepCalls = total /\ exitCode = EXIT_OK

(***************************************************************************)
(* C5: 0 <= Elapsed <= Duration in every reachable state; Elapsed starts   *)
(* at 0 and changes only by +1, in the step that follows a call of         *)
(* sleep_one_second that returned 0 (one such call per increment), so it   *)
(* never decreases; every tick drawn shows remaining = Duration - Elapsed  *)
(* >= 0.                                                                   *)
(***************************************************************************)
ElapsedInRange ==
    /\ 0 <= elapsed /\ elapsed <= total
    /\ elapsed <= sleepOk /\ sleepOk <= elapsed + 1
    /\ pc = "install" => elapsed = 0
    /\ \A i \in 1..Len(io) :
          io[i].ev = "tick" =>
              /\ io[i].b = total - io[i].a
              /\ io[i].b >= 0
              /\ io[i].a >= 0

ElapsedStep ==
    elapsed' # elapsed =>
        /\ elapsed' = elapsed + 1
        /\ pc = "incr"
        /\ sleepOk = elapsed + 1
        /\ sleepOk' = sleepOk

C5_ElapsedBounded == []ElapsedInRange /\ [][ElapsedStep]_vars

C5_Witness ==
    /\ total >= 2 /\ elapsed = total /\ sleepOk = total
    /\ Len(TickEvents) >= 2
    /\ TickEvents[Len(TickEvents)].b = 0

(***************************************************************************)
(* C6: a run with Duration = 0 never calls sleep_one_second and exits with *)
(* status 0; in the bar variants with quiet off it draws one tick, with    *)
(* all 20 cells filled and 100%.                                           *)
(***************************************************************************)
C6_ZeroDuration ==
    total = 0 =>
        /\ sleepCalls = 0
        /\ pc \notin {"chk1", "call", "sleeping", "eintr", "ret0", "chk2", "incr", "intr"}
        /\ Exited => exitCode = EXIT_OK
        /\ (Exited /\ IsBar /\ ~quiet) =>
              /\ Len(TickEvents) = 1
              /\ TickEvents[1].filled = 20
              /\ TickEvents[1].pct = 100

\* a bar run of duration 0 that finished, the latch set on the way
C6_Witness ==
    /\ total = 0 /\ IsBar /\ ~quiet /\ Exited /\ latchAt.set
    /\ Len(TickEvents) = 1

(***************************************************************************)
(* C7 as stated: an interrupted run in single-line mode (no --multiline,   *)
(* with or without --quiet) writes a newline to stdout and then the        *)
(* message to stderr and exits 130; in multi-line mode it writes the       *)
(* message with no newline before it.                                      *)
(***************************************************************************)
C7_NewlineInSingleLineMode ==
    exitCode = EXIT_INTERRUPTED =>
        /\ LastIo = Err("intr", elapsed, total)
        /\ ~multiline => (Len(io) >= 2 /\ io[Len(io) - 1] = Out("nl", 0, 0))
        /\ multiline => Len(NewlineEvents) = 0

(***************************************************************************)
(* C7 amended: an interrupted run writes the message to stderr last and    *)
(* exits 130; a newline is written to stdout right before the message      *)
(* when the run is in single-line mode and draws ticks (no --multiline     *)
(* and, in the bar variants, no --quiet); in multi-line mode and in the    *)
(* bar variants' quiet mode no newline is written at all.                  *)
(***************************************************************************)
C7_NewlineWhenLineInProgress ==
    exitCode = EXIT_INTERRUPTED =>
        /\ LastIo = Err("intr", elapsed, total)
        /\ IF ~multiline /\ (variant = "basic" \/ ~quiet)
           THEN /\ Len(io) >= 2
                /\ io[Len(io) - 1] = Out("nl", 0, 0)
                /\ Len(NewlineEvents) = 1
           ELSE Len(NewlineEvents) = 0

\* an interrupted quiet single-line run of a bar variant: no newline written
C7_Witness ==
    /\ exitCode = EXIT_INTERRUPTED /\ IsBar /\ quiet /\ ~multiline
    /\ elapsed >= 1
    /\ Len(NewlineEvents) = 0

(***************************************************************************)
(* C8: in the bar variants a quiet run writes no tick at any elapsed       *)
(* value, under every interleaving of interrupts; it still writes the two  *)
(* header lines before the loop and, when it completes normally, the       *)
(* summary line as its last output.                                        *)
(***************************************************************************)
C8_QuietRun ==
    (IsBar /\ quiet) =>
        /\ Len(TickEvents) = 0
        /\ bar = NoBar
        /\ pc \notin {"install", "header"} =>
              /\ Len(io) >= 2
              /\ io[1] = Out("start_eta", 0, total)
              /\ io[2] = Out("sleeping_for", total, 0)
        /\ exitCode = EXIT_OK => LastIo = Out("done", total, 0)
        /\ \A i \in 1..Len(io) : io[i].ch = "out" =>
              io[i].ev \in {"start_eta", "sleeping_for", "done"}

C8_Witness ==
    /\ IsBar /\ quiet /\ total >= 2 /\ exitCode = EXIT_OK
    /\ latchAt.set
    /\ Len(io) = 3

(***************************************************************************)
(* C9: print_bar fills floor(20 * e / D) cells (20 when D = 0), a number   *)
(* in 0..20 that never decreases as e grows from 0 to D and is 20 exactly  *)
(* when e = D.                                                             *)
(***************************************************************************)
FilledIsFloor ==
    /\ bar.e = elapsed /\ bar.d = total
    /\ bar.filled = (IF total = 0 THEN 20 ELSE (20 * elapsed) \div total)
    /\ bar.filled \in 0..20
    /\ bar.filled = 20 <=> elapsed = total

FilledStep == bar'.filled >= bar.filled

C10_PercentageRounded ==
    /\ bar.pct \in 0..100
    /\ (pc = "bar" /\ total > 0) => bar.pct = (200 * elapsed + total) \div (2 * total)
    /\ (pc = "bar" /\ total = 0) => bar.pct = 100

(***************************************************************************)
(* Shapes of an argument, read off its characters.                         *)
(***************************************************************************)
AllDigits(str) == Len(str) >= 1 /\ \A i \in 1..Len(str) : IsDigit(str[i])

\* no number at its start: "abc", "--foo", "", "-"
NonNumeric(str) ==
    \/ Len(str) = 0
    \/ ~IsDigit(str[1]) /\ str[1] \notin {"-", "+", " "}
    \/ str[1] \in {"-", "+"} /\ (Len(str) = 1 \/ ~IsDigit(str[2]))

\* a minus sign and digits, not all of them 0: "-5"
NegativeNumber(str) ==
    /\ Len(str) >= 2 /\ str[1] = "-" /\ AllDigits(Tail(str))
    /\ \E i \in 2..Len(str) : str[i] # "0"

\* digits followed by something else: "3.5"
TrailingGarbage(str) == Len(str) >= 1 /\ IsDigit(str[1]) /\ ~AllDigits(str)

InvalidDuration(str) == NonNumeric(str) \/ NegativeNumber(str) \/ TrailingGarbage(str)

KnownFlags == {ArgMultiline, ArgQuiet, ArgQ}

\* the positions of the arguments that may be the duration: argv[1] in the basic
\* variant, the arguments that are no known flag in the bar variants
DurationPositions ==
    IF IsBar THEN {i \in 1..Len(argv) : argv[i] \notin KnownFlags}
    ELSE {i \in 1..Len(argv) : i = 1}

FirstOf(S) == CHOOSE i \in S : \A j \in S : i <= j

DurationMissingOrInvalid ==
    \/ DurationPositions = {}
    \/ InvalidDuration(argv[FirstOf(DurationPositions)])

(***************************************************************************)
(* C11: when the duration argument is missing, non-numeric, negative or    *)
(* numeric with trailing garbage, the program exits with status 1 having   *)
(* written only to stderr: the handler is never installed, no header and   *)
(* no tick is written, sleep_one_second is never called.                   *)
(***************************************************************************)
C11_BadDurationExits1 ==
    DurationMissingOrInvalid =>
        /\ pc \in {"parse", "exited"}
        /\ ~handler
        /\ sleepCalls = 0
        /\ \A i \in 1..Len(io) : io[i].ch = "err"
        /\ Exited => (exitCode = EXIT_USAGE /\ Len(io) = 1)

\* --quiet -5 given to a bar variant
C11_Witness ==
    /\ IsBar /\ Exited /\ exitCode = EXIT_USAGE
    /\ Len(argv) = 2 /\ argv[1] = ArgQuiet /\ argv[2] = <<"-", "5">>
    /\ io = <<Err("bad_seconds", 0, 0)>>

(***************************************************************************)
(* What a scan of the command line comes to: for a good command line the   *)
(* duration and the modes (they fix the run's output and exit status), for *)
(* a bad one exit status 1 with nothing on stdout, whatever the error      *)
(* written to stderr.                                                      *)
(***************************************************************************)
ScanOutcome(r) == IF r.status = "ok" THEN r ELSE ScanResult("error", -1, FALSE, FALSE)

RunOutcome ==
    IF exitCode = EXIT_USAGE
    THEN ScanResult("error", -1, FALSE, FALSE)
    ELSE ScanResult("ok", total, multiline, quiet)

RemoveAt(args, i) == [j \in 1..(Len(args) - 1) |-> IF j < i THEN args[j] ELSE args[j + 1]]

UnknownFlag(str) == str \notin KnownFlags /\ NonNumeric(str)

(***************************************************************************)
(* C12 as stated: in the bar variants an unknown flag, at any position of  *)
(* any argument list, is silently ignored: duration, exit status and       *)
(* output are those of the argument list with the unknown flag removed.    *)
(***************************************************************************)
C12_UnknownFlagIgnored ==
    (IsBar /\ pc # "parse") =>
        \A i \in 1..Len(argv) :
            UnknownFlag(argv[i]) =>
                RunOutcome = ScanOutcome(ScanArgs(variant, RemoveAt(argv, i)))

(***************************************************************************)
(* C12 amended: in the bar variants an unknown flag that comes after the   *)
(* first argument that is no known flag (the duration argument) is         *)
(* silently ignored: duration, exit status and output are those of the     *)
(* argument list with it removed.  An unknown flag that is itself the      *)
(* first argument that is no known flag is taken as the duration and       *)
(* rejected: the run exits with status 1 and the "must be a non-negative   *)
(* integer" error.                                                         *)
(***************************************************************************)
C12_UnknownFlagAfterDuration ==
    (IsBar /\ pc # "parse") =>
        \A i \in 1..Len(argv) :
            UnknownFlag(argv[i]) =>
                IF i = FirstOf(DurationPositions)
                THEN /\ RunOutcome = ScanResult("error", -1, FALSE, FALSE)
                     /\ io = <<Err("bad_seconds", 0, 0)>>
                ELSE RunOutcome = ScanOutcome(ScanArgs(variant, RemoveAt(argv, i)))

\* 1 --foo --quiet: the run completes, quiet, with duration 1
C12_Witness ==
    /\ IsBar /\ Exited /\ exitCode = EXIT_OK
    /\ Len(argv) = 3 /\ AllDigits(argv[1]) /\ UnknownFlag(argv[2]) /\ argv[3] = ArgQuiet
    /\ total = 1 /\ quiet

\* the latch was first set while the sleep_one_second call now returning was
\* waiting: in nanosleep, or between two nanosleep calls of its loop
LatchSetDuringThisWait ==
    /\ latchAt.set
    /\ latchSnap.waiting
    /\ latchAt.elapsed = elapsed
    /\ latchSnap.sleepOk = sleepOk

(***************************************************************************)
(* C13: sleep_one_second returns 0 only when the whole second has been     *)
(* waited, however often other signals woke it with the latch clear; it    *)
(* returns -1 whenever the latch became set during the wait; it never      *)
(* returns -1 (and main never takes the interrupted exit) with the latch   *)
(* clear.                                                                  *)
(***************************************************************************)
C13_SleepOneSecond ==
    /\ pc = "ret0" => (ts = 0 /\ ~LatchSetDuringThisWait)
    /\ pc = "intr" => interrupted = 1

\* the output of a complete single-line run of the basic variant with duration d
BasicSingleLineOutput(d) ==
    <<Out("sleeping_for", d, 0)>>
        \o [i \in 1..d |-> Out("tick", i, d - i)]
        \o <<Out("nl", 0, 0), Out("done", d, 0)>>

(***************************************************************************)
(* C14: an uninterrupted single-line run of the basic variant draws the    *)
(* progress line exactly D times, once after each completed sleep, with    *)
(* elapsed 1, 2, ..., D in that order and remaining = D - elapsed; the     *)
(* last one shows elapsed D and remaining 0 and is followed by a newline   *)
(* and the summary; exit status 0.                                         *)
(***************************************************************************)
C14_BasicSingleLineTicks ==
    (variant = "basic" /\ ~multiline /\ ~latchAt.set) =>
        /\ \A i \in 1..Len(TickEvents) : TickEvents[i] = Out("tick", i, total - i)
        /\ Len(TickEvents) = (IF pc \in {"incr", "render"} THEN sleepOk - 1 ELSE sleepOk)
        /\ Exited => /\ exitCode = EXIT_OK
                     /\ io = BasicSingleLineOutput(total)

C14_Witness ==
    /\ variant = "basic" /\ ~multiline /\ ~latchAt.set
    /\ Exited /\ total >= 3 /\ wakes >= 1
    /\ Len(TickEvents) = total
    /\ io[Len(io) - 2] = Out("tick", total, 0)

(***************************************************************************)
(* C15: with the program and its timer running on, every run reaches a     *)
(* terminal state: DONE with exit status 0, INTERRUPTED with exit status   *)
(* 130, or usage error with exit status 1, exactly one of them, after at   *)
(* most D completed sleeps; its message is the last thing written and      *)
(* nothing is slept, drawn or counted after it.                            *)
(***************************************************************************)
TerminalState ==
    /\ Exited <=> exitCode \in {EXIT_OK, EXIT_INTERRUPTED, EXIT_USAGE}
    /\ ~Exited => exitCode = -1
    /\ pc # "parse" => sleepOk <= (IF total >= 0 THEN total ELSE 0)
    /\ \A i \in 1..Len(io) :
          io[i].ev \in {"done", "intr", "usage", "bad_seconds", "missing"}
              => (Exited /\ i = Len(io))
    /\ exitCode = EXIT_OK => LastIo.ev = "done"
    /\ exitCode = EXIT_INTERRUPTED => LastIo.ev = "intr"
    /\ exitCode = EXIT_USAGE => (LastIo.ev \in {"usage", "bad_seconds", "missing"} /\ ~handler)

TerminalStep == Exited => UNCHANGED vars

C15_Terminates == <>Exited /\ []TerminalState /\ [][TerminalStep]_vars

C15_Witness ==
    /\ Exited /\ exitCode = EXIT_INTERRUPTED
    /\ total = 1 /\ sleepOk = 1 /\ wakes >= 1 /\ sigints = 2

(***************************************************************************)
(* C16: once the latch is set at most one more sleep_one_second call       *)
(* completes and at most one more tick is drawn before the run ends; a     *)
(* was_interrupted() check made before the sleep with the latch set never  *)
(* goes on to sleep.                                                       *)
(***************************************************************************)
AfterLatch ==
    latchAt.set =>
        /\ sleepOk <= latchSnap.sleepOk + 1
        /\ Len(TickEvents) <= latchSnap.ticks + 1

CheckedStep ==
    (pc = "chk1" /\ interrupted = 1) =>
        /\ pc' \in {"chk1", "intr"}
        /\ sleepCalls' = sleepCalls

C16_NoRetryAfterLatch == []AfterLatch /\ [][CheckedStep]_vars

\* the basic variant: the latch set just before nanosleep, one more sleep
\* completed and one more tick drawn before the interrupted exit
C16_Witness ==
    /\ variant = "basic" /\ exitCode = EXIT_INTERRUPTED
    /\ latchAt.pc = "call"
    /\ sleepOk = latchSnap.sleepOk + 1
    /\ Len(TickEvents) = latchSnap.ticks + 1

(***************************************************************************)
(* C17: a run that exits with status 130 reports E with 0 <= E < D, the    *)
(* value Elapsed had when the interrupt was detected; a run with D = 0     *)
(* never exits 130 and no run reports "Interrupted at D/D".                *)
(***************************************************************************)
C17_InterruptedElapsed ==
    /\ pc = "intr" => (0 <= elapsed /\ elapsed < total)
    /\ exitCode = EXIT_INTERRUPTED =>
          /\ LastIo = Err("intr", elapsed, total)
          /\ 0 <= LastIo.a /\ LastIo.a < total
          /\ LastIo.a = sleepOk \/ LastIo.a = sleepOk - 1
    /\ total = 0 => exitCode # EXIT_INTERRUPTED
    /\ \A i \in 1..Len(io) : io[i].ev = "intr" => io[i].a # io[i].b

\* interrupted in the last unit after its sleep had returned
C17_Witness ==
    /\ exitCode = EXIT_INTERRUPTED /\ IsBar
    /\ total >= 2 /\ LastIo.a = total - 1 /\ sleepOk = total

(***************************************************************************)
(* C18: in the bar variants with quiet off the frames drawn are those of   *)
(* elapsed 0, 1, 2, ... in that order, each drawn before the interrupt     *)
(* check and the sleep of its iteration, so that frame 0 is drawn even     *)
(* when the latch is set before the first sleep; an uninterrupted run      *)
(* draws D + 1 frames, the frame of elapsed = D once and as the last tick  *)
(* before the summary.                                                     *)
(***************************************************************************)
C18_BarFrames ==
    (IsBar /\ ~quiet) =>
        /\ \A i \in 1..Len(TickEvents) :
              /\ TickEvents[i].a = i - 1
              /\ TickEvents[i].b = total - (i - 1)
        /\ Len(TickEvents) =
              (IF pc \in {"install", "header", "loop", "render"} THEN elapsed ELSE elapsed + 1)
        /\ Exited => Len(TickEvents) >= 1
        /\ exitCode = EXIT_OK =>
              /\ Len(TickEvents) = total + 1
              /\ Len(io) = total + (IF multiline THEN 4 ELSE 5)
              /\ io[Len(io) - (IF multiline THEN 1 ELSE 2)].ev = "tick"
              /\ io[Len(io) - (IF multiline THEN 1 ELSE 2)].a = total

C18_Witness ==
    /\ IsBar /\ ~quiet /\ ~multiline /\ exitCode = EXIT_OK /\ ~latchAt.set
    /\ total >= 2 /\ Len(TickEvents) = total + 1

(***************************************************************************)
(* C19: the flag changes only in the signal handler, which sets it to 1    *)
(* and leaves Elapsed, Duration and the modes alone; no step of main,      *)
(* sleep_one_second or was_interrupted writes it; once set it stays set.   *)
(***************************************************************************)
FlagStep ==
    /\ interrupted' # interrupted =>
          /\ sigints' = sigints + 1
          /\ interrupted' = 1
    /\ sigints' # sigints =>
          /\ interrupted' = 1
          /\ UNCHANGED <<elapsed, total, multiline, quiet, variant, io>>
    /\ sigints' = sigints => interrupted' = interrupted
    /\ interrupted = 1 => interrupted' = 1

C19_FlagOnlySetByHandler == [](interrupted \in {0, 1}) /\ [][FlagStep]_vars

C19_Witness ==
    /\ interrupted = 1 /\ sigints = 2 /\ pc = "chk2"

====
